---- MODULE Spec2Model ----
(***************************************************************************)
(* A model of portal/models.py of hamwan-portal: the Host / IPAddress      *)
(* tables, the DNS record table they keep in step (Record, Domain of the   *)
(* dns app), and the Subnet normalisation and utilisation computations.    *)
(*                                                                         *)
(* Domain names are sequences of labels, "foo.example.com" being           *)
(* <<"foo", "example", "com">>.  An IP address is its version and its      *)
(* parts: four octets (IPv4) or eight 16-bit groups (IPv6).                *)
(***************************************************************************)
EXTENDS Integers, Sequences, FiniteSets, TLC

VARIABLES
    zones,      \* names of the Domain rows (the DNS zones); not written by models.py
    hosts,      \* Host table: host id -> name, NoHost when there is no such row
    addrs,      \* IPAddress table, keyed by its unique ip: ip -> row, Absent when none
    records,    \* Record table of the dns app: a set of [domain, name, type, content]
    rn,         \* the Host.save call in progress (its position, loop and arguments)
    last,       \* the operation that returned last, and whether it raised
    subnet      \* Subnet.network of the one Subnet row under edit

vars == <<zones, hosts, addrs, records, rn, last, subnet>>

(***************************************************************************)
(* Bounds of the model.                                                    *)
(***************************************************************************)
NumHosts == 2      \* Host rows
MaxOps == 3        \* calls on IPAddress objects and on stored Hosts

HostIds == 1..NumHosts
Names == {"Foo", "bar"}
Interfaces == {"", "mail", "www"}

(***************************************************************************)
(* Values.                                                                 *)
(***************************************************************************)
ROOT_DOMAIN == <<"example", "com">>

NoHost == "<none>"
NoName == <<>>
NoIp == [version |-> 0, parts |-> <<>>]
Absent == [host |-> 0, interface |-> "", auto_dns |-> FALSE, primary |-> FALSE]

V4(a, b, c, d) == [version |-> 4, parts |-> <<a, b, c, d>>]
V6(groups) == [version |-> 6, parts |-> groups]

Ip4a == V4(10, 0, 0, 5)                            \* 10.0.0.5
Ip6a == V6(<<8193, 3512, 0, 0, 0, 0, 0, 5>>)       \* 2001:db8::5
DnsIPs == {Ip4a, Ip6a}
SubnetIPs == {V4(10, 0, 0, d) : d \in {0, 1, 2, 3, 5}}
AllIPs == DnsIPs \cup SubnetIPs

Present(as) == {ip \in AllIPs : as[ip] # Absent}

(***************************************************************************)
(* Text of names and addresses.                                            *)
(***************************************************************************)
LowerLabel(l) ==
    CASE l = "Foo" -> "foo"
      [] l = "Bar" -> "bar"
      [] l = "Mail" -> "mail"
      [] l = "WWW" -> "www"
      [] OTHER -> l

Lower(name) == [i \in DOMAIN name |-> LowerLabel(name[i])]

\* the characters of a host name
Chars(name) ==
    CASE name = "Foo" -> <<"F", "o", "o">>
      [] name = "bar" -> <<"b", "a", "r">>
      [] name = "a_b" -> <<"a", "_", "b">>
      [] name = "x-.y" -> <<"x", "-", ".", "y">>
      [] OTHER -> <<>>

\* [a-zA-Z0-9-]
LabelChars ==
    {"a", "b", "c", "d", "e", "f", "g", "h", "i", "j", "k", "l", "m", "n", "o", "p", "q",
     "r", "s", "t", "u", "v", "w", "x", "y", "z",
     "A", "B", "C", "D", "E", "F", "G", "H", "I", "J", "K", "L", "M", "N", "O", "P", "Q",
     "R", "S", "T", "U", "V", "W", "X", "Y", "Z",
     "0", "1", "2", "3", "4", "5", "6", "7", "8", "9", "-"}

\* the runs of characters between the dots
RECURSIVE SplitDots(_, _)
SplitDots(cs, label) ==
    IF cs = <<>> THEN <<label>>
    ELSE IF Head(cs) = "." THEN <<label>> \o SplitDots(Tail(cs), <<>>)
    ELSE SplitDots(Tail(cs), Append(label, Head(cs)))

\* domain_validator: 1 to 253 characters; labels of 1 to 63 characters of
\* [a-zA-Z0-9-] joined by dots; a label before a dot neither begins nor ends with "-"
DomainValidator(name) ==
    LET cs == Chars(name)
        labels == SplitDots(cs, <<>>)
    IN  /\ Len(cs) \in 1..253
        /\ \A i \in 1..Len(labels) :
              LET l == labels[i]
              IN  /\ Len(l) \in 1..63
                  /\ \A k \in 1..Len(l) : l[k] \in LabelChars
                  /\ i < Len(labels) => (l[1] # "-" /\ l[Len(l)] # "-")
IExact(a, b) == Lower(a) = Lower(b)

Reverse(s) == [i \in 1..Len(s) |-> s[Len(s) + 1 - i]]

HexDigit(n) ==
    IF n < 10 THEN ToString(n)
    ELSE CASE n = 10 -> "a" [] n = 11 -> "b" [] n = 12 -> "c"
           [] n = 13 -> "d" [] n = 14 -> "e" [] OTHER -> "f"

RECURSIVE HexStr(_)
HexStr(n) == IF n < 16 THEN HexDigit(n) ELSE HexStr(n \div 16) \o HexDigit(n % 16)

\* ip.exploded.replace(':', ''): the 32 hexadecimal digits of an IPv6 address
Exploded(ip) ==
    [i \in 1..(4 * Len(ip.parts)) |->
        LET g == ip.parts[((i - 1) \div 4) + 1]
            k == (i - 1) % 4
        IN  HexDigit((g \div (16 ^ (3 - k))) % 16)]

\* str(ip).split('.'): the four decimal octets of an IPv4 address
Octets(ip) == [i \in 1..Len(ip.parts) |-> ToString(ip.parts[i])]

\* the text of an address, as a Record's content holds it: its octets (IPv4) or
\* its groups in hexadecimal (IPv6)
IpText(ip) ==
    IF ip.version = 6
    THEN [i \in 1..Len(ip.parts) |-> HexStr(ip.parts[i])]
    ELSE Octets(ip)

HostFqdn(hs, h) == <<hs[h]>> \o ROOT_DOMAIN

Fqdn(hs, a) ==
    IF a.interface # ""
    THEN <<a.interface, hs[a.host]>> \o ROOT_DOMAIN
    ELSE <<hs[a.host]>> \o ROOT_DOMAIN

GeneratePtr(ip, domain) ==
    IF ip.version = 6
    THEN LET rev == Reverse(Exploded(ip))
         IN  (IF domain THEN SubSeq(rev, 21, Len(rev)) ELSE rev) \o <<"ip6", "arpa">>
    ELSE LET rev == Reverse(Octets(ip))
         IN  (IF domain THEN Tail(rev) ELSE rev) \o <<"in-addr", "arpa">>

\* the three texts of each address, computed once
IpTextOf == [ip \in AllIPs |-> IpText(ip)]
PtrOf == [ip \in AllIPs |-> GeneratePtr(ip, FALSE)]
PtrZoneOf == [ip \in AllIPs |-> GeneratePtr(ip, TRUE)]

(***************************************************************************)
(* The zones (Domain rows): ROOT_DOMAIN, and the reverse zones of the /24  *)
(* of 10.0.0.5 and of the /48 of 2001:db8::5.                              *)
(***************************************************************************)
Zone24a == <<"0", "0", "10", "in-addr", "arpa">>
Zone48a == <<"0", "0", "0", "0", "8", "b", "d", "0", "1", "0", "0", "2", "ip6", "arpa">>
ZoneConfigs == {{ROOT_DOMAIN, Zone24a, Zone48a}}

\* the reverse zones of larger allocations: the /16 and the /8 of 10.0.0.5 and the
\* /44 of 2001:db8::5; and the sets of zones an installation may have
Zone16a == <<"0", "10", "in-addr", "arpa">>
Zone8a == <<"10", "in-addr", "arpa">>
Zone44a == <<"0", "0", "0", "8", "b", "d", "0", "1", "0", "0", "2", "ip6", "arpa">>
ZoneChoices ==
    {{ROOT_DOMAIN, Zone24a, Zone48a},
     {ROOT_DOMAIN, Zone16a, Zone44a},
     {ROOT_DOMAIN, Zone24a, Zone16a, Zone48a, Zone44a},
     {ROOT_DOMAIN, Zone8a},
     {ROOT_DOMAIN}}

\* Domain.objects.get(name=zone) without the except branch that widens
PtrDomainExact(zs, ip) ==
    IF PtrZoneOf[ip] \in zs THEN PtrZoneOf[ip] ELSE NoName

\* Domain.objects.get(name=zone), falling back to the zone one label up
PtrDomain(zs, ip) ==
    LET zone == PtrZoneOf[ip]
    IN  IF zone \in zs THEN zone
        ELSE IF Tail(zone) \in zs THEN Tail(zone)
        ELSE NoName

(***************************************************************************)
(* Record.objects: get_or_create and filter(...).delete().                 *)
(***************************************************************************)
Rec(d, n, t, c) == [domain |-> d, name |-> n, type |-> t, content |-> c]

\* get_or_create keyed on domain, name, type and content
GetOrCreate(rs, d, n, t, c) == rs \cup {Rec(d, n, t, c)}

\* get_or_create keyed on domain, name and type; content is set when the row exists
GetOrCreateSetContent(rs, d, n, t, c) ==
    LET hit(r) == r.domain = d /\ r.name = n /\ r.type = t
    IN  IF \E r \in rs : hit(r)
        THEN {IF hit(r) THEN [r EXCEPT !.content = c] ELSE r : r \in rs}
        ELSE rs \cup {Rec(d, n, t, c)}

ForwardType(ip) == IF ip.version = 6 THEN "AAAA" ELSE "A"

\* _add_dns with the forward record named by fqdn() as it is, not lowercased
AddForwardAsWritten(hs, rs, a, ip) ==
    GetOrCreate(rs, ROOT_DOMAIN, Fqdn(hs, a), ForwardType(ip), IpTextOf[ip])

\* IPAddress._add_dns, as save() calls it: self.pk is None there
AddForward(hs, rs, a, ip) ==
    GetOrCreate(rs, ROOT_DOMAIN, Lower(Fqdn(hs, a)), ForwardType(ip), IpTextOf[ip])

\* the PTR block with content among the keys of get_or_create, as in the A block
AddPtrByContent(hs, zs, rs, a, ip) ==
    IF PtrDomain(zs, ip) # NoName
    THEN GetOrCreate(rs, PtrDomain(zs, ip), PtrOf[ip], "PTR", Lower(Fqdn(hs, a)))
    ELSE rs

AddPtr(hs, zs, rs, a, ip) ==
    LET domain == PtrDomain(zs, ip)
    IN  IF domain # NoName
        THEN GetOrCreateSetContent(rs, domain, PtrOf[ip], "PTR",
                                   Lower(Fqdn(hs, a)))
        ELSE rs

AddCname(hs, rs, a) ==
    IF a.primary /\ a.interface # ""
    THEN GetOrCreateSetContent(rs, ROOT_DOMAIN, Lower(HostFqdn(hs, a.host)), "CNAME",
                               Lower(Fqdn(hs, a)))
    ELSE rs

AddDns(hs, zs, rs, a, ip) ==
    AddCname(hs, AddPtr(hs, zs, AddForward(hs, rs, a, ip), a, ip), a)

\* _remove_dns deleting every A/AAAA record of the name, whatever its content
ForwardFilterByName(hs, orig, ip, r) ==
    /\ r.type \in {"A", "AAAA"}
    /\ IExact(r.name, Fqdn(hs, orig))

\* _remove_dns deleting the CNAME of the host, wherever it points
CnameFilterAnyContent(hs, orig, ip, r) ==
    /\ orig.primary
    /\ r.type = "CNAME"
    /\ IExact(r.name, HostFqdn(hs, orig.host))

\* IPAddress._remove_dns: orig is the stored row and its stored host
ForwardFilter(hs, orig, ip, r) ==
    /\ r.type \in {"A", "AAAA"}
    /\ r.content = IpTextOf[ip]
    /\ IExact(r.name, Fqdn(hs, orig))

\* _remove_dns deleting the PTR records with the content, at whatever name
PtrFilterByContent(hs, orig, ip, r) ==
    /\ r.type = "PTR"
    /\ IExact(r.content, Fqdn(hs, orig))

CnameFilter(hs, orig, ip, r) ==
    /\ orig.primary
    /\ r.type = "CNAME"
    /\ IExact(r.name, HostFqdn(hs, orig.host))
    /\ IExact(r.content, Fqdn(hs, orig))

PtrFilter(hs, orig, ip, r) ==
    /\ r.type = "PTR"
    /\ r.name = PtrOf[ip]
    /\ IExact(r.content, Fqdn(hs, orig))

RemoveDns(hs, as, rs, ip) ==
    LET orig == as[ip]
    IN  {r \in rs : ~ForwardFilter(hs, orig, ip, r)
                    /\ ~CnameFilter(hs, orig, ip, r)
                    /\ ~PtrFilter(hs, orig, ip, r)}

\* the pre_delete receiver: instance is the object delete() was called on
RemoteDnsHook(hs, as, rs, ip, instance_auto_dns) ==
    IF instance_auto_dns THEN RemoveDns(hs, as, rs, ip) ELSE rs

\* save() without @transaction.atomic: what was written before the raise stays
TransactionAutocommit(pre, partial, post, ok) ==
    IF ok THEN [addrs |-> post.addrs, records |-> post.records, ok |-> TRUE]
    ELSE [addrs |-> partial.addrs, records |-> partial.records, ok |-> FALSE]

\* @transaction.atomic: the block's writes are kept when it returns and undone
\* when it raises; partial is what it had written when it raised
TransactionAtomic(pre, partial, post, ok) ==
    IF ok THEN [addrs |-> post.addrs, records |-> post.records, ok |-> TRUE]
    ELSE [addrs |-> pre.addrs, records |-> pre.records, ok |-> FALSE]

\* IPAddress.save calling _add_dns whatever auto_dns is
IPAddressSaveAlwaysAddsDns(hs, zs, as, rs, pk, ip, a) ==
    LET deleted ==
            IF pk # NoIp
            THEN [addrs |-> [as EXCEPT ![pk] = Absent],
                  records |-> RemoteDnsHook(hs, as, rs, pk, a.auto_dns)]
            ELSE [addrs |-> as, records |-> rs]
        added ==
            [addrs |-> deleted.addrs,
             records |-> AddDns(hs, zs, deleted.records, a, ip)]
        inserted ==
            [addrs |-> [added.addrs EXCEPT ![ip] = a], records |-> added.records]
    IN  TransactionAtomic([addrs |-> as, records |-> rs], added, inserted,
                          deleted.addrs[ip] = Absent)

\* IPAddress.save of an object with fields a and address ip; pk is the key of the
\* stored row it was loaded from, NoIp for a new object
IPAddressSave(hs, zs, as, rs, pk, ip, a) ==
    LET deleted ==
            IF pk # NoIp
            THEN [addrs |-> [as EXCEPT ![pk] = Absent],
                  records |-> RemoteDnsHook(hs, as, rs, pk, a.auto_dns)]
            ELSE [addrs |-> as, records |-> rs]
        added ==
            [addrs |-> deleted.addrs,
             records |-> IF a.auto_dns THEN AddDns(hs, zs, deleted.records, a, ip)
                         ELSE deleted.records]
        unique == deleted.addrs[ip] = Absent
        inserted ==
            [addrs |-> [added.addrs EXCEPT ![ip] = a], records |-> added.records]
    IN  TransactionAtomic([addrs |-> as, records |-> rs], added, inserted, unique)

(***************************************************************************)
(* Host.ipaddresses.all(): the rows of a host, in Meta.ordering (by ip).   *)
(***************************************************************************)
IpLess(a, b) ==
    \/ a.version < b.version
    \/ /\ a.version = b.version
       /\ \E i \in 1..Len(a.parts) :
            /\ a.parts[i] < b.parts[i]
            /\ \A j \in 1..(i - 1) : a.parts[j] = b.parts[j]

RECURSIVE SortedIps(_)
SortedIps(S) ==
    IF S = {} THEN <<>>
    ELSE LET m == CHOOSE x \in S : \A y \in S \ {x} : IpLess(x, y)
         IN  <<m>> \o SortedIps(S \ {m})

Owned(as, h) == {ip \in AllIPs : as[ip] # Absent /\ as[ip].host = h}
IpAddressesAll(as, h) == SortedIps(Owned(as, h))

(***************************************************************************)
(* State.                                                                  *)
(***************************************************************************)
Assignments ==
    [host : HostIds, interface : Interfaces, auto_dns : BOOLEAN, primary : BOOLEAN]

NoSnap == [hosts |-> [h \in HostIds |-> NoHost],
           addrs |-> [ip \in AllIPs |-> Absent],
           records |-> {}]
Idle == [pc |-> "idle", host |-> 0, name |-> "", old |-> "", todo |-> <<>>,
         snap |-> NoSnap]

\* the call on an IPAddress or on a stored Host that returned last: the operation,
\* whether it returned (ok) or raised, the key pk of the stored row the object was
\* loaded from (NoIp for a new object), the object's ip and other fields when the
\* call was made, and the number of such calls so far.  For a call on a Host, row
\* names the host, and pk, ip and the other fields of row are those of the first
\* row the host had (Host.delete) or are left empty (Host.save)
OfHost(h) == [Absent EXCEPT !.host = h]
Returned(op, ok, pk, ip, row, n) ==
    [op |-> op, ok |-> ok, pk |-> pk, ip |-> ip, row |-> row, n |-> n]

NoSubnet == [octets |-> <<>>, prefix |-> 0]

Init ==
    /\ zones \in ZoneConfigs
    /\ hosts = [h \in HostIds |-> NoHost]
    /\ addrs = [ip \in AllIPs |-> Absent]
    /\ records = {}
    /\ rn = Idle
    /\ last = Returned("none", TRUE, NoIp, NoIp, Absent, 0)
    /\ subnet = NoSubnet

(***************************************************************************)
(* IPAddress: create, update, delete.                                      *)
(***************************************************************************)
\* IPAddress(host=..., ip=ip, ...).save() of a new object
Create(ip, a) ==
    /\ rn.pc = "idle"
    /\ last.n < MaxOps
    /\ hosts[a.host] # NoHost
    /\ LET res == IPAddressSave(hosts, zones, addrs, records, NoIp, ip, a)
       IN  /\ addrs' = res.addrs
           /\ records' = res.records
           /\ last' = Returned("create", res.ok, NoIp, ip, a, last.n + 1)
    /\ UNCHANGED <<zones, hosts, rn, subnet>>

\* save() of the object loaded from row pk, with its fields set to a and ip
Update(pk, ip, a) ==
    /\ rn.pc = "idle"
    /\ last.n < MaxOps
    /\ addrs[pk] # Absent
    /\ hosts[a.host] # NoHost
    /\ LET res == IPAddressSave(hosts, zones, addrs, records, pk, ip, a)
       IN  /\ addrs' = res.addrs
           /\ records' = res.records
           /\ last' = Returned("update", res.ok, pk, ip, a, last.n + 1)
    /\ UNCHANGED <<zones, hosts, rn, subnet>>

\* delete() of the object loaded from row ip
Delete(ip) ==
    /\ rn.pc = "idle"
    /\ last.n < MaxOps
    /\ addrs[ip] # Absent
    /\ records' = RemoteDnsHook(hosts, addrs, records, ip, addrs[ip].auto_dns)
    /\ addrs' = [addrs EXCEPT ![ip] = Absent]
    /\ last' = Returned("delete", TRUE, ip, ip, addrs[ip], last.n + 1)
    /\ UNCHANGED <<zones, hosts, rn, subnet>>

(***************************************************************************)
(* Host: create, delete, save.                                             *)
(***************************************************************************)
NameTaken(hs, h, name) == \E g \in HostIds \ {h} : hs[g] = name

\* Host(name=name).save() of a new object: name is unique
HostCreate(h, name) ==
    /\ rn.pc = "idle"
    /\ hosts[h] = NoHost
    /\ hosts' = IF NameTaken(hosts, h, name) THEN hosts ELSE [hosts EXCEPT ![h] = name]
    /\ UNCHANGED <<zones, addrs, records, rn, last, subnet>>

\* a cascade that sends no pre_delete signal
HookNone(hs, as, rs, todo) == rs

RECURSIVE HookAll(_, _, _, _)
HookAll(hs, as, rs, todo) ==
    IF todo = <<>> THEN rs
    ELSE HookAll(hs, as,
                 RemoteDnsHook(hs, as, rs, Head(todo), as[Head(todo)].auto_dns),
                 Tail(todo))

\* Host.delete(): on_delete=CASCADE deletes its IPAddress rows, pre_delete first
HostDelete(h) ==
    /\ rn.pc = "idle"
    /\ last.n < MaxOps
    /\ hosts[h] # NoHost
    /\ records' = HookAll(hosts, addrs, records, IpAddressesAll(addrs, h))
    /\ addrs' = [ip \in AllIPs |-> IF ip \in Owned(addrs, h) THEN Absent ELSE addrs[ip]]
    /\ hosts' = [hosts EXCEPT ![h] = NoHost]
    /\ LET todo == IpAddressesAll(addrs, h)
       IN  last' = IF todo = <<>>
                   THEN Returned("hostdelete", TRUE, NoIp, NoIp, OfHost(h), last.n + 1)
                   ELSE Returned("hostdelete", TRUE, Head(todo), Head(todo),
                                 addrs[Head(todo)], last.n + 1)
    /\ UNCHANGED <<zones, rn, subnet>>

\* Host.save() with the name unchanged: neither loop runs
HostSave(h) ==
    /\ rn.pc = "idle"
    /\ hosts[h] # NoHost
    /\ UNCHANGED <<zones, hosts, addrs, records, rn, last, subnet>>

\* Host.save() with self.name = name, another name than the stored one: entry
RenameBegin(h, name) ==
    /\ rn.pc = "idle"
    /\ last.n < MaxOps
    /\ hosts[h] # NoHost
    /\ hosts[h] # name
    /\ rn' = [pc |-> "remove", host |-> h, name |-> name, old |-> hosts[h],
              todo |-> IpAddressesAll(addrs, h),
              snap |-> [hosts |-> hosts, addrs |-> addrs, records |-> records]]
    /\ UNCHANGED <<zones, hosts, addrs, records, last, subnet>>

\* the first loop leaving the records alone
RenameRemoveSkips ==
    /\ rn.pc = "remove"
    /\ rn.todo # <<>>
    /\ rn' = [rn EXCEPT !.todo = Tail(rn.todo)]
    /\ UNCHANGED <<zones, hosts, addrs, records, last, subnet>>

\* one turn of the first loop: ipaddress._remove_dns() if ipaddress.auto_dns
RenameRemove ==
    /\ rn.pc = "remove"
    /\ rn.todo # <<>>
    /\ LET ip == Head(rn.todo)
       IN  records' = IF addrs[ip].auto_dns
                      THEN RemoveDns(hosts, addrs, records, ip)
                      ELSE records
    /\ rn' = [rn EXCEPT !.todo = Tail(rn.todo)]
    /\ UNCHANGED <<zones, hosts, addrs, last, subnet>>

\* super().save(): the new name is written, or the unique constraint raises
RenamePersist ==
    /\ rn.pc = "remove"
    /\ rn.todo = <<>>
    /\ IF NameTaken(hosts, rn.host, rn.name)
       THEN /\ rn' = [rn EXCEPT !.pc = "raised"]
            /\ UNCHANGED hosts
       ELSE /\ hosts' = [hosts EXCEPT ![rn.host] = rn.name]
            /\ rn' = [rn EXCEPT !.pc = "readd", !.todo = IpAddressesAll(addrs, rn.host)]
    /\ UNCHANGED <<zones, addrs, records, last, subnet>>

\* the second loop saving no row
RenameReaddSkips ==
    /\ rn.pc = "readd"
    /\ rn.todo # <<>>
    /\ rn' = [rn EXCEPT !.todo = Tail(rn.todo)]
    /\ UNCHANGED <<zones, hosts, addrs, records, last, subnet>>

\* one turn of the second loop: ipaddress.save()
RenameReadd ==
    /\ rn.pc = "readd"
    /\ rn.todo # <<>>
    /\ LET ip == Head(rn.todo)
           res == IPAddressSave(hosts, zones, addrs, records, ip, ip, addrs[ip])
       IN  /\ addrs' = res.addrs
           /\ records' = res.records
    /\ rn' = [rn EXCEPT !.todo = Tail(rn.todo)]
    /\ UNCHANGED <<zones, hosts, last, subnet>>

\* Host.save() returns, or the exception of super().save() reaches the caller
RenameReturn ==
    /\ \/ rn.pc = "readd" /\ rn.todo = <<>>
       \/ rn.pc = "raised"
    /\ last' = Returned("rename", rn.pc = "readd", NoIp, NoIp, OfHost(rn.host),
                        last.n + 1)
    /\ rn' = Idle
    /\ UNCHANGED <<zones, hosts, addrs, records, subnet>>

(***************************************************************************)
(* Subnet: clean() and the hosts property.  A network text "a.b.c.d/p" is  *)
(* [octets |-> <<a, b, c, d>>, prefix |-> p].  Addresses below 128.0.0.0   *)
(* keep the 32-bit arithmetic within the integers of the checker.          *)
(***************************************************************************)
MaxHostBits == 3   \* hosts are enumerated for networks of at most 2^MaxHostBits addresses

NetTexts ==
    [octets : {<<10, 0, 0, 0>>, <<10, 0, 0, 2>>, <<10, 0, 0, 7>>, <<10, 0, 1, 255>>,
               <<10, 0, 0, 256>>},
     prefix : {0, 22, 28, 29, 30, 31, 32, 33}]

ToInt(octets) == ((octets[1] * 256 + octets[2]) * 256 + octets[3]) * 256 + octets[4]
FromInt(v) == <<v \div 16777216, (v \div 65536) % 256, (v \div 256) % 256, v % 256>>

\* ip_network that keeps the address as written, host bits included
IpNetworkKeepsHostBits(text) ==
    IF (\A i \in 1..4 : text.octets[i] \in 0..255) /\ text.prefix \in 0..32
    THEN [ok |-> TRUE, address |-> ToInt(text.octets), prefixlen |-> text.prefix]
    ELSE [ok |-> FALSE, address |-> 0, prefixlen |-> 0]

\* ipaddress.ip_network(text, strict=False): the address and'ed with the netmask
IpNetwork(text) ==
    LET valid == /\ \A i \in 1..4 : text.octets[i] \in 0..255
                 /\ text.prefix \in 0..32
        hostbits == 32 - text.prefix
        v == ToInt(text.octets)
    IN  IF ~valid THEN [ok |-> FALSE, address |-> 0, prefixlen |-> 0]
        ELSE [ok |-> TRUE,
              address |-> IF hostbits >= 31 THEN 0 ELSE v - (v % (2 ^ hostbits)),
              prefixlen |-> text.prefix]

\* str(network_obj)
NetworkStr(n) == [octets |-> FromInt(n.address), prefix |-> n.prefixlen]

\* Subnet.clean: the stored text, or ok = FALSE for ValidationError
Clean(text) ==
    LET network_obj == IpNetwork(text)
    IN  IF network_obj.ok THEN [ok |-> TRUE, network |-> NetworkStr(network_obj)]
        ELSE [ok |-> FALSE, network |-> text]

\* a Subnet form is cleaned and, when clean() does not raise, saved
SubnetClean(text) ==
    /\ rn.pc = "idle"
    /\ LET res == Clean(text)
       IN  subnet' = IF res.ok THEN res.network ELSE subnet
    /\ UNCHANGED <<zones, hosts, addrs, records, rn, last>>

NumAddresses(net) == 2 ^ (32 - net.prefix)
NetMin(net) == ToInt(net.octets)
NetMax(net) == ToInt(net.octets) + NumAddresses(net) - 1

\* network.iterhosts(): every address but the network and the broadcast address
IterHosts(net) ==
    [i \in 1..(IF NumAddresses(net) > 2 THEN NumAddresses(net) - 2 ELSE 0) |->
        [version |-> 4, parts |-> FromInt(NetMin(net) + i)]]

RowAt(as, ip) == IF ip \in AllIPs THEN as[ip] ELSE Absent
NoRow == [ip |-> NoIp, row |-> Absent]

\* Subnet._hosts_in_use: the rows with ip BETWEEN min and max, ORDER BY ip
HostsInUse(as, net) ==
    SortedIps({ip \in Present(as) : /\ ip.version = 4
                                     /\ NetMin(net) <= ToInt(ip.parts)
                                     /\ ToInt(ip.parts) <= NetMax(net)})

RECURSIVE PlaceInUse(_, _, _, _)
PlaceInUse(as, addresses, in_use, rows) ==
    IF rows = <<>> THEN in_use
    ELSE LET ip == Head(rows)
             at == {i \in 1..Len(addresses) : addresses[i] = ip}
         IN  PlaceInUse(as, addresses,
                        IF at = {} THEN in_use
                        ELSE [in_use EXCEPT ![CHOOSE i \in at : \A j \in at : i <= j] =
                                  [ip |-> ip, row |-> as[ip]]],
                        Tail(rows))

\* _hosts_html that zips the addresses with the rows in use as they come
HostsHtmlZipped(as, net) ==
    LET addresses == IterHosts(net)
        rows == HostsInUse(as, net)
    IN  [i \in 1..Len(addresses) |->
            [address |-> addresses[i],
             host |-> IF i <= Len(rows) THEN [ip |-> rows[i], row |-> as[rows[i]]]
                      ELSE NoRow]]

\* Subnet._hosts_html: zip(addresses, in_use), the context of the template
HostsHtml(as, net) ==
    LET addresses == IterHosts(net)
        in_use == PlaceInUse(as, addresses, [i \in 1..Len(addresses) |-> NoRow],
                             HostsInUse(as, net))
    IN  [i \in 1..Len(addresses) |-> [address |-> addresses[i], host |-> in_use[i]]]

Next ==
    \/ \E ip \in DnsIPs, a \in Assignments : Create(ip, a)
    \/ \E pk \in DnsIPs, ip \in DnsIPs, a \in Assignments : Update(pk, ip, a)
    \/ \E ip \in DnsIPs : Delete(ip)
    \/ \E h \in HostIds, name \in Names : HostCreate(h, name)
    \/ \E h \in HostIds : HostDelete(h)
    \/ \E h \in HostIds : HostSave(h)
    \/ \E h \in HostIds, name \in Names : RenameBegin(h, name)
    \/ RenameRemove
    \/ RenamePersist
    \/ RenameReadd
    \/ RenameReturn

Spec == Init /\ [][Next]_vars

(***************************************************************************)
(* The Subnet pages: hosts exist, addresses are handed out without DNS,    *)
(* and subnets are entered and looked at.                                  *)
(***************************************************************************)
PlainAssignments == [host : {1}, interface : {""}, auto_dns : {FALSE}, primary : {FALSE}]

NextSubnet ==
    \/ \E h \in {1}, name \in Names : HostCreate(h, name)
    \/ \E ip \in SubnetIPs, a \in PlainAssignments : Create(ip, a)
    \/ \E ip \in SubnetIPs : Delete(ip)
    \/ \E text \in NetTexts : SubnetClean(text)

SpecSubnet == Init /\ [][NextSubnet]_vars

(***************************************************************************)
(* One host and its addresses, in installations with different reverse     *)
(* zones.                                                                  *)
(***************************************************************************)
ZoneAssignments ==
    [host : {1}, interface : Interfaces, auto_dns : BOOLEAN, primary : BOOLEAN]

InitZones ==
    /\ zones \in ZoneChoices
    /\ hosts = [h \in HostIds |-> NoHost]
    /\ addrs = [ip \in AllIPs |-> Absent]
    /\ records = {}
    /\ rn = Idle
    /\ last = Returned("none", TRUE, NoIp, NoIp, Absent, 0)
    /\ subnet = NoSubnet

NextZones ==
    \/ \E name \in Names : HostCreate(1, name)
    \/ \E ip \in DnsIPs, a \in ZoneAssignments : Create(ip, a)
    \/ \E pk \in DnsIPs, ip \in DnsIPs, a \in ZoneAssignments : Update(pk, ip, a)
    \/ \E ip \in DnsIPs : Delete(ip)

SpecZones == InitZones /\ [][NextZones]_vars

(***************************************************************************)
(* The operations of Next, with hosts renamed only to names no other host  *)
(* has: every call on a Host returns.                                      *)
(***************************************************************************)
\* Host.save() with a new name that the unique constraint will accept
RenameBeginUntaken(h, name) ==
    /\ ~NameTaken(hosts, h, name)
    /\ RenameBegin(h, name)

NextReturning ==
    \/ \E ip \in DnsIPs, a \in Assignments : Create(ip, a)
    \/ \E pk \in DnsIPs, ip \in DnsIPs, a \in Assignments : Update(pk, ip, a)
    \/ \E ip \in DnsIPs : Delete(ip)
    \/ \E h \in HostIds, name \in Names : HostCreate(h, name)
    \/ \E h \in HostIds : HostDelete(h)
    \/ \E h \in HostIds : HostSave(h)
    \/ \E h \in HostIds, name \in Names : RenameBeginUntaken(h, name)
    \/ RenameRemove
    \/ RenamePersist
    \/ RenameReadd
    \/ RenameReturn

SpecReturning == Init /\ [][NextReturning]_vars

(***************************************************************************)
(* Hosts renamed to names of any form.                                     *)
(***************************************************************************)
AnyNames == Names \cup {"a_b", "x-.y"}

NameAssignments ==
    [host : HostIds, interface : {"", "mail"}, auto_dns : BOOLEAN, primary : {FALSE}]

NextNames ==
    \/ \E h \in HostIds, name \in Names : HostCreate(h, name)
    \/ \E ip \in DnsIPs, a \in NameAssignments : Create(ip, a)
    \/ \E h \in HostIds, name \in AnyNames : RenameBegin(h, name)
    \/ RenameRemove
    \/ RenamePersist
    \/ RenameReadd
    \/ RenameReturn

SpecNames == Init /\ [][NextNames]_vars

(***************************************************************************)
(* Properties of the DNS records.  The texts expected of the two addresses *)
(* are written out, not computed.                                          *)
(***************************************************************************)
ExpectedText(ip) ==
    IF ip = Ip4a THEN <<"10", "0", "0", "5">>
    ELSE <<"2001", "db8", "0", "0", "0", "0", "0", "5">>

ExpectedReverse(ip) ==
    IF ip = Ip4a THEN <<"5", "0", "0", "10", "in-addr", "arpa">>
    ELSE <<"5", "0", "0", "0", "0", "0", "0", "0", "0", "0", "0", "0",
           "0", "0", "0", "0", "0", "0", "0", "0", "0", "0", "0", "0",
           "8", "b", "d", "0", "1", "0", "0", "2", "ip6", "arpa">>

ExpectedBoundaryZone(ip) == IF ip = Ip4a THEN Zone24a ELSE Zone48a

\* the step is the return of a call of op
Returns(op) == last'.op = op /\ last'.n = last.n + 1

\* the call of op that returned is the last thing that happened to the tables
After(op) == rn.pc = "idle" /\ last.op = op

\* the lowercased FQDN of a row and of its host, with the host names of hs
LowerFqdn(hs, row) == Lower(Fqdn(hs, row))
LowerHostFqdn(hs, row) == Lower(HostFqdn(hs, row.host))

\* the records a row with auto_dns implies
IsForwardOf(hs, row, ip, r) ==
    r.type \in {"A", "AAAA"} /\ r.name = LowerFqdn(hs, row) /\ r.content = ExpectedText(ip)
IsPtrOf(hs, row, ip, r) ==
    r.type = "PTR" /\ r.name = ExpectedReverse(ip) /\ r.content = LowerFqdn(hs, row)
IsCnameOf(hs, row, ip, r) ==
    /\ row.primary
    /\ r.type = "CNAME"
    /\ r.name = LowerHostFqdn(hs, row)
    /\ r.content = LowerFqdn(hs, row)
Implies(hs, row, ip, r) ==
    IsForwardOf(hs, row, ip, r) \/ IsPtrOf(hs, row, ip, r) \/ IsCnameOf(hs, row, ip, r)

\* C3: a create that raises because another row holds the address leaves the
\* IPAddress table and the Record table as they were before the call.
FailedCreateLeavesNoTrace ==
    [][(Returns("create") /\ ~last'.ok) => (addrs' = addrs /\ records' = records)]_vars

\* a create with auto_dns was refused for an address whose holder has another FQDN
\* and its PTR record: _add_dns had added a forward record and set the PTR content
C3Witness ==
    /\ After("create")
    /\ ~last.ok
    /\ last.row.auto_dns
    /\ addrs[last.ip].auto_dns
    /\ LowerFqdn(hosts, last.row) # LowerFqdn(hosts, addrs[last.ip])
    /\ \E r \in records : IsPtrOf(hosts, addrs[last.ip], last.ip, r)
    /\ \A r \in records : r.name # LowerFqdn(hosts, last.row)

\* C4: deleting a row with auto_dns removes exactly the records it implies (its
\* A/AAAA record by name and content, its PTR record by name and content, and if
\* primary the CNAME of its host by name and content) and no other record.
DeleteRemovesExactlyImplied ==
    [][(Returns("delete") /\ addrs[last'.pk].auto_dns) =>
          records' = {r \in records : ~Implies(hosts, addrs[last'.pk], last'.pk, r)}]_vars

\* a row with auto_dns was deleted and a forward record of its name with another
\* content is still there
C4Witness ==
    /\ After("delete")
    /\ last.row.auto_dns
    /\ \E r \in records : /\ r.type \in {"A", "AAAA"}
                           /\ r.name = LowerFqdn(hosts, last.row)
                           /\ r.content # ExpectedText(last.ip)

\* C5: creating a row with auto_dns and no interface on host h yields the forward
\* record (A for IPv4, AAAA for IPv6) named h.<root> in lower case with the address
\* as content, in the root zone, and, when the /24 or /48 reverse zone exists, a PTR
\* record at the reverse name of the address whose content is that name.
CreateYieldsForwardAndPtr ==
    (After("create") /\ last.ok /\ last.row.auto_dns /\ last.row.interface = "") =>
        LET name == <<LowerLabel(hosts[last.row.host])>> \o ROOT_DOMAIN
        IN  /\ Rec(ROOT_DOMAIN, name, IF last.ip.version = 4 THEN "A" ELSE "AAAA",
                   ExpectedText(last.ip)) \in records
            /\ ExpectedBoundaryZone(last.ip) \in zones =>
                  \E r \in records : /\ r.type = "PTR"
                                      /\ r.name = ExpectedReverse(last.ip)
                                      /\ r.content = name
                                      /\ r.domain = ExpectedBoundaryZone(last.ip)

\* 2001:db8::5 was created on host Foo without interface: AAAA and PTR exist
C5Witness ==
    /\ After("create")
    /\ last.ok
    /\ last.ip = Ip6a
    /\ last.row.auto_dns
    /\ last.row.interface = ""
    /\ hosts[last.row.host] = "Foo"
    /\ Zone48a \in zones
    /\ \E r \in records : r.type = "AAAA" /\ r.name = <<"foo", "example", "com">>
    /\ \E r \in records : r.type = "PTR" /\ r.content = <<"foo", "example", "com">>

\* C6: creating a row with auto_dns, primary and an interface label i on host h
\* leaves a CNAME record named h.<root> with content i.h.<root>; deleting that row
\* removes a CNAME at h.<root> if and only if its content equals, case-insensitively,
\* the FQDN of the row, so a CNAME repointed to another row stays.
CnameFollowsPrimary ==
    [][/\ \A ip \in DnsIPs :
            (/\ Returns("create") /\ last'.ok /\ last'.ip = ip
             /\ last'.row.auto_dns /\ last'.row.primary /\ last'.row.interface # "") =>
                Rec(ROOT_DOMAIN,
                    <<LowerLabel(hosts[last'.row.host])>> \o ROOT_DOMAIN,
                    "CNAME",
                    <<LowerLabel(last'.row.interface), LowerLabel(hosts[last'.row.host])>>
                        \o ROOT_DOMAIN) \in records'
       /\ \A ip \in DnsIPs :
            (/\ Returns("delete") /\ last'.pk = ip
             /\ addrs[ip].auto_dns /\ addrs[ip].primary /\ addrs[ip].interface # "") =>
                \A r \in records :
                    (r.type = "CNAME" /\ r.name = LowerHostFqdn(hosts, addrs[ip])) =>
                        (r \notin records' <=> Lower(r.content) = LowerFqdn(hosts, addrs[ip]))
      ]_vars

\* a primary row with an interface was deleted and the CNAME of its host, which
\* points to another row, is still there
C6Witness ==
    /\ After("delete")
    /\ last.row.auto_dns
    /\ last.row.primary
    /\ last.row.interface # ""
    /\ \E r \in records : /\ r.type = "CNAME"
                           /\ r.name = LowerHostFqdn(hosts, last.row)
                           /\ r.content # LowerFqdn(hosts, last.row)

\* C9: after a successful update of a row whose stored auto_dns was true, no
\* A/AAAA, PTR or CNAME record derived only from the stored state remains,
\* whichever fields the update changed.
UpdateRemovesStoredRecords ==
    [][\A pk \in DnsIPs :
          (Returns("update") /\ last'.ok /\ last'.pk = pk /\ addrs[pk].auto_dns) =>
              \A r \in records' :
                  Implies(hosts, addrs[pk], pk, r) =>
                      (last'.row.auto_dns /\ Implies(hosts, last'.row, last'.ip, r))
      ]_vars

\* C10: at most one A/AAAA record has a given address as its content, in every
\* state, those inside a rename included.
ForwardContentUnique ==
    \A ip \in DnsIPs :
        Cardinality({r \in records : r.type \in {"A", "AAAA"}
                                     /\ r.content = ExpectedText(ip)}) <= 1

\* the lowercased FQDNs built on a host name: the bare one and one per interface
\* of the rows the host owns
FqdnsBuiltOn(name, h) ==
    {Lower(<<name>> \o ROOT_DOMAIN)}
        \cup {Lower(<<addrs[ip].interface, name>> \o ROOT_DOMAIN) :
                 ip \in {i \in Owned(addrs, h) : addrs[i].interface # ""}}

\* C1: when a rename from old to new has gone through, no A, AAAA, PTR or CNAME
\* record has an FQDN built on old.<root> as name or content, and every owned row
\* with auto_dns has its forward record, and its PTR record when the reverse zone
\* exists, built on new.<root>.
RenameLeavesNoOldName ==
    (rn.pc = "readd" /\ rn.todo = <<>>) =>
        /\ \A r \in records :
              /\ r.name \notin FqdnsBuiltOn(rn.old, rn.host)
              /\ r.content \notin FqdnsBuiltOn(rn.old, rn.host)
        /\ \A ip \in Owned(addrs, rn.host) :
              addrs[ip].auto_dns =>
                  /\ \E r \in records : IsForwardOf(hosts, addrs[ip], ip, r)
                  /\ ExpectedBoundaryZone(ip) \in zones =>
                        \E r \in records : IsPtrOf(hosts, addrs[ip], ip, r)

\* C2: a rename that raised leaves the host names, the rows and the records as
\* they were when it was called.
RenameAllOrNothing ==
    rn.pc = "raised" =>
        /\ hosts = rn.snap.hosts
        /\ addrs = rn.snap.addrs
        /\ records = rn.snap.records

(***************************************************************************)
(* Properties of Subnet.                                                   *)
(***************************************************************************)
\* the bits of octet i (1..4) that a prefix of length p leaves to the host part
HostBitsOfOctet(p, i) ==
    LET net == p - 8 * (i - 1)
    IN  IF net >= 8 THEN 0 ELSE IF net <= 0 THEN 8 ELSE 8 - net

\* C7: subnet normalisation is idempotent: cleaning the stored network, itself the
\* result of cleaning a text that parsed, gives the stored network again, and the
\* stored network has every host bit zero.
SubnetNormalizedAndIdempotent ==
    subnet # NoSubnet =>
        /\ Clean(subnet).ok
        /\ Clean(subnet).network = subnet
        /\ \A i \in 1..4 : subnet.octets[i] % (2 ^ HostBitsOfOctet(subnet.prefix, i)) = 0

\* 10.0.1.255/22 and 10.0.0.7/29 were cleaned to 10.0.0.0/22 and 10.0.0.0/29
C7Witness ==
    \/ subnet = [octets |-> <<10, 0, 0, 0>>, prefix |-> 22]
    \/ subnet = [octets |-> <<10, 0, 0, 0>>, prefix |-> 29]

\* C8: for an IPv4 subnet the hosts property lists exactly the usable addresses (all
\* but the network and the broadcast address), ascending, each paired with the
\* stored row whose ip is that address, or with nothing when there is none; a row
\* whose ip is the network or the broadcast address is paired with no address.
UtilizationListsUsableHosts ==
    (subnet # NoSubnet /\ 32 - subnet.prefix <= MaxHostBits) =>
        LET u == HostsHtml(addrs, subnet)
            size == 2 ^ (32 - subnet.prefix)
            first == ToInt(subnet.octets)
        IN  /\ Len(u) = IF size > 2 THEN size - 2 ELSE 0
            /\ \A i \in 1..Len(u) :
                  /\ u[i].address.version = 4
                  /\ ToInt(u[i].address.parts) = first + i
                  /\ u[i].host = IF RowAt(addrs, u[i].address) # Absent
                                 THEN [ip |-> u[i].address, row |-> addrs[u[i].address]]
                                 ELSE NoRow
            /\ \A ip \in Present(addrs) :
                  (ip.version = 4 /\ ToInt(ip.parts) \in {first, first + size - 1})
                      => \A i \in 1..Len(u) : u[i].host.ip # ip

\* 10.0.0.0/30 with rows at .0 (the network address) and .2, and none at .1
C8Witness ==
    /\ subnet = [octets |-> <<10, 0, 0, 0>>, prefix |-> 30]
    /\ addrs[V4(10, 0, 0, 0)] # Absent
    /\ addrs[V4(10, 0, 0, 1)] = Absent
    /\ addrs[V4(10, 0, 0, 2)] # Absent
    /\ Len(HostsHtml(addrs, subnet)) = 2
    /\ HostsHtml(addrs, subnet)[2].host.ip = V4(10, 0, 0, 2)

(***************************************************************************)
(* Properties of update, rename and host deletion.                         *)
(***************************************************************************)
\* C11: an update that raises after the stored row was deleted and its records
\* removed is rolled back: the stored row is present with its fields, its records
\* are in the store, and no record of the attempted state exists.
FailedUpdateRollsBack ==
    [][(Returns("update") /\ ~last'.ok) => (addrs' = addrs /\ records' = records)]_vars

\* an update moved a row with auto_dns to an address another row holds and was
\* refused: the row is stored as before, with its forward and PTR records, and no
\* record has the name of the attempted state
C11Witness ==
    /\ After("update")
    /\ ~last.ok
    /\ last.row.auto_dns
    /\ last.pk # last.ip
    /\ addrs[last.pk] # last.row
    /\ addrs[last.pk].auto_dns
    /\ LowerFqdn(hosts, last.row) # LowerFqdn(hosts, addrs[last.pk])
    /\ LowerFqdn(hosts, last.row) # LowerFqdn(hosts, addrs[last.ip])
    /\ \E r \in records : IsForwardOf(hosts, addrs[last.pk], last.pk, r)
    /\ \E r \in records : IsPtrOf(hosts, addrs[last.pk], last.pk, r)
    /\ \A r \in records : r.name # LowerFqdn(hosts, last.row)

\* C12: a rename has two phases.  Until the new name is persisted the stored name
\* is the old one and records are only removed; when the name is persisted no
\* record implied under the old name by an owned row with auto_dns is left and no
\* record has been created; afterwards every owned row is saved under the new
\* name, and each record created is one its row implies under the new name.
RenameIsTwoPhase ==
    [][/\ (rn.pc = "remove" /\ rn'.pc = "remove") =>
            /\ hosts' = hosts
            /\ hosts[rn.host] = rn.old
            /\ records' \subseteq records
       /\ (rn.pc = "remove" /\ rn'.pc = "readd") =>
            /\ hosts[rn.host] = rn.old
            /\ hosts'[rn.host] = rn.name
            /\ records' = records
            /\ records \subseteq rn.snap.records
            /\ rn'.todo = IpAddressesAll(addrs, rn.host)
            /\ \A ip \in Owned(addrs, rn.host) :
                  addrs[ip].auto_dns =>
                      \A r \in records : ~Implies(hosts, addrs[ip], ip, r)
       /\ (rn.pc = "readd" /\ rn'.pc = "readd") =>
            /\ hosts' = hosts
            /\ hosts[rn.host] = rn.name
            /\ LET ip == Head(rn.todo)
               IN  /\ \A r \in records' \ records :
                         addrs[ip].auto_dns /\ Implies(hosts, addrs[ip], ip, r)
                   /\ addrs[ip].auto_dns =>
                         \E r \in records' : IsForwardOf(hosts, addrs[ip], ip, r)
      ]_vars

\* a rename of a host with two rows with auto_dns has saved both again: the forward
\* records of the old name, there when it was called, are gone and those of the new
\* name are there
C12Witness ==
    /\ rn.pc = "readd"
    /\ rn.todo = <<>>
    /\ Cardinality({ip \in Owned(addrs, rn.host) : addrs[ip].auto_dns}) = 2
    /\ \A ip \in Owned(addrs, rn.host) :
          /\ \E r \in records : IsForwardOf(hosts, addrs[ip], ip, r)
          /\ \E r \in rn.snap.records \ records :
                IsForwardOf(rn.snap.hosts, addrs[ip], ip, r)

\* the zone one label above the /24 or /48 zone of an address, written out
ExpectedWidenedZone(ip) == IF ip = Ip4a THEN Zone16a ELSE Zone44a

\* C13: creating a row with auto_dns at a free address writes the PTR record in
\* the /24 (IPv4) or /48 (IPv6) reverse zone if it exists, else in the zone named
\* by that name without its first label if it exists, else writes no PTR record;
\* in each case the call returns, the forward record is there and the row is saved.
PtrZoneIsBestEffort ==
    [][\A ip \in DnsIPs :
          (Returns("create") /\ last'.ip = ip /\ addrs[ip] = Absent) =>
              /\ last'.ok
              /\ addrs'[ip] = last'.row
              /\ last'.row.auto_dns =>
                    LET fqdn == LowerFqdn(hosts, last'.row)
                        ptrs == {r \in records' : r.type = "PTR"
                                                   /\ r.name = ExpectedReverse(ip)}
                    IN  /\ Rec(ROOT_DOMAIN, fqdn, IF ip = Ip4a THEN "A" ELSE "AAAA",
                               ExpectedText(ip)) \in records'
                        /\ ptrs =
                              IF ExpectedBoundaryZone(ip) \in zones
                              THEN {Rec(ExpectedBoundaryZone(ip), ExpectedReverse(ip),
                                        "PTR", fqdn)}
                              ELSE IF ExpectedWidenedZone(ip) \in zones
                              THEN {Rec(ExpectedWidenedZone(ip), ExpectedReverse(ip),
                                        "PTR", fqdn)}
                              ELSE {}
      ]_vars

\* there is no /24 zone but the /16 zone: the PTR record of 10.0.0.5 is in it
C13Witness ==
    /\ After("create")
    /\ last.ok
    /\ last.row.auto_dns
    /\ last.ip = Ip4a
    /\ Zone24a \notin zones
    /\ Zone16a \in zones
    /\ Rec(Zone16a, <<"5", "0", "0", "10", "in-addr", "arpa">>, "PTR",
           LowerFqdn(hosts, last.row)) \in records

\* there is only the /8 zone: 10.0.0.5 was saved with its A record and no PTR record
C13WitnessNoZone ==
    /\ After("create")
    /\ last.ok
    /\ last.row.auto_dns
    /\ last.ip = Ip4a
    /\ Zone8a \in zones
    /\ addrs[Ip4a] = last.row
    /\ \E r \in records : IsForwardOf(hosts, last.row, Ip4a, r)
    /\ \A r \in records : r.type # "PTR"

\* the PTR records at the reverse name of an address
PtrsAt(ip) == {r \in records : r.type = "PTR" /\ r.name = ExpectedReverse(ip)}

\* C14: in every state there is at most one PTR record at the reverse name of an
\* address, and when a stored row with auto_dns holds the address its content is
\* the lowercased FQDN of that row under the current host name; after a create or
\* an update with auto_dns that returned, that one record is there, in the reverse
\* zone, whatever PTR record was there before.
PtrIsPatchedInPlace ==
    \A ip \in DnsIPs :
        /\ Cardinality(PtrsAt(ip)) <= 1
        /\ (addrs[ip] # Absent /\ addrs[ip].auto_dns) =>
              \A r \in PtrsAt(ip) : r.content = LowerFqdn(hosts, addrs[ip])
        /\ (/\ rn.pc = "idle" /\ last.op \in {"create", "update"} /\ last.ok
            /\ last.ip = ip /\ last.row.auto_dns) =>
              PtrsAt(ip) = {Rec(ExpectedBoundaryZone(ip), ExpectedReverse(ip), "PTR",
                                LowerFqdn(hosts, last.row))}

\* a row with auto_dns was created at an address whose PTR record pointed to another
\* name, the name a forward record of the address still has: the PTR record now
\* has the FQDN of the new row
C14Witness ==
    /\ After("create")
    /\ last.ok
    /\ last.row.auto_dns
    /\ PtrsAt(last.ip) # {}
    /\ \A r \in PtrsAt(last.ip) : r.content = LowerFqdn(hosts, last.row)
    /\ \E r \in records : /\ r.type \in {"A", "AAAA"}
                           /\ r.content = ExpectedText(last.ip)
                           /\ r.name # LowerFqdn(hosts, last.row)

\* C15: deleting a host deletes every row it owns and removes, for each owned row
\* with auto_dns, the forward, PTR and (if primary) CNAME records implied under
\* the host's stored name; the rows and names of other hosts and every other
\* record are unchanged.
HostDeleteCascades ==
    [][\A h \in HostIds :
          (Returns("hostdelete") /\ hosts[h] # NoHost /\ hosts'[h] = NoHost) =>
              /\ \A g \in HostIds \ {h} : hosts'[g] = hosts[g]
              /\ \A ip \in AllIPs :
                    addrs'[ip] = IF ip \in Owned(addrs, h) THEN Absent ELSE addrs[ip]
              /\ records' =
                    {r \in records :
                        \A ip \in Owned(addrs, h) \cap DnsIPs :
                            ~(addrs[ip].auto_dns /\ Implies(hosts, addrs[ip], ip, r))}
      ]_vars

\* a host whose first row had auto_dns was deleted: the row is gone, no record has
\* its address as content, and a row of the other host still has its forward record
C15Witness ==
    /\ After("hostdelete")
    /\ last.row.auto_dns
    /\ hosts[last.row.host] = NoHost
    /\ addrs[last.pk] = Absent
    /\ \A r \in records : r.content # ExpectedText(last.pk)
    /\ \E ip \in DnsIPs :
          /\ addrs[ip] # Absent
          /\ addrs[ip].auto_dns
          /\ \E r \in records : IsForwardOf(hosts, addrs[ip], ip, r)

\* C16: a rename to a name the hostname grammar rejects raises, and leaves the
\* stored host names, the rows and the records as they were when it was called.
InvalidRenameIsRejected ==
    (rn.pc # "idle" /\ ~DomainValidator(rn.name)) =>
        /\ rn.pc # "readd"
        /\ hosts = rn.snap.hosts
        /\ addrs = rn.snap.addrs
        /\ records = rn.snap.records

\* C17: a create with auto_dns false that returns leaves the records as they were
\* and stores the row.
CreateWithoutAutoDnsLeavesRecords ==
    [][(Returns("create") /\ last'.ok /\ ~last'.row.auto_dns) =>
          /\ records' = records
          /\ addrs[last'.ip] = Absent
          /\ addrs' = [addrs EXCEPT ![last'.ip] = last'.row]
      ]_vars

\* a row without auto_dns was created beside a row with records: it is stored, and
\* no record has its address as content
C17Witness ==
    /\ After("create")
    /\ last.ok
    /\ ~last.row.auto_dns
    /\ addrs[last.ip] = last.row
    /\ records # {}
    /\ \A r \in records : r.content # ExpectedText(last.ip)

\* C18: between calls, when every call so far on a Host has returned, every stored
\* row with auto_dns has its forward record: type A (IPv4) or AAAA (IPv6), name
\* its lowercased FQDN under the current host name, content its address.
AutoDnsRowsHaveForward ==
    rn.pc = "idle" =>
        \A ip \in DnsIPs :
            (addrs[ip] # Absent /\ addrs[ip].auto_dns) =>
                Rec(ROOT_DOMAIN, LowerFqdn(hosts, addrs[ip]),
                    IF ip = Ip4a THEN "A" ELSE "AAAA", ExpectedText(ip)) \in records

\* a host with a row with auto_dns and an interface was renamed to bar: the forward
\* record of the row is named by the new name
C18Witness ==
    /\ After("rename")
    /\ last.ok
    /\ hosts[last.row.host] = "bar"
    /\ \E ip \in Owned(addrs, last.row.host) :
          /\ addrs[ip].auto_dns
          /\ addrs[ip].interface = "mail"
          /\ \E r \in records : /\ r.name = <<"mail", "bar", "example", "com">>
                                 /\ r.content = ExpectedText(ip)

\* the rows of a host with auto_dns, primary and an interface
PrimaryRows(h) ==
    {ip \in Owned(addrs, h) \cap DnsIPs :
        addrs[ip].auto_dns /\ addrs[ip].primary /\ addrs[ip].interface # ""}

\* C19: whenever a host has a row with auto_dns, primary and an interface, there is
\* a CNAME record at the host's FQDN whose content is the FQDN of one of those
\* rows, also after one of several such rows was deleted or updated.
PrimaryRowsHaveCname ==
    \A h \in HostIds :
        PrimaryRows(h) # {} =>
            \E r \in records :
                /\ r.type = "CNAME"
                /\ r.name = Lower(HostFqdn(hosts, h))
                /\ \E ip \in PrimaryRows(h) : r.content = LowerFqdn(hosts, addrs[ip])

\* C20: a create, update or delete of one row that returns leaves the forward
\* record and the PTR record implied by any other stored row with auto_dns as they
\* were, also when the two rows have the same FQDN.
OtherRowsKeepRecords ==
    [][\A y \in DnsIPs :
          (/\ last'.n = last.n + 1
           /\ last'.op \in {"create", "update", "delete"}
           /\ last'.ok
           /\ y \notin {last'.pk, last'.ip}
           /\ addrs[y] # Absent
           /\ addrs[y].auto_dns) =>
              /\ addrs'[y] = addrs[y]
              /\ \A r \in records \cup records' :
                    (IsForwardOf(hosts, addrs[y], y, r) \/ IsPtrOf(hosts, addrs[y], y, r))
                        => (r \in records /\ r \in records')
      ]_vars

\* a row with auto_dns was deleted; another row with the same FQDN is stored and
\* has its forward record and its PTR record
C20Witness ==
    /\ After("delete")
    /\ last.row.auto_dns
    /\ \E y \in DnsIPs \ {last.pk} :
          /\ addrs[y] # Absent
          /\ addrs[y].auto_dns
          /\ LowerFqdn(hosts, addrs[y]) = LowerFqdn(hosts, last.row)
          /\ \E r \in records : IsForwardOf(hosts, addrs[y], y, r)
          /\ \E r \in records : IsPtrOf(hosts, addrs[y], y, r)

====
